---- MODULE Spec2Model ----
(***************************************************************************)
(* The variable-graph engine of Brancher, src/brancher/variables.py:       *)
(* DeterministicVariable and RandomVariable nodes of a DAG, the recursive  *)
(* sampling and log-probability passes with their per-node caches, the     *)
(* ProbabilisticModel container and the PosteriorModel coupling.           *)
(*                                                                         *)
(* A tensor is an uninterpreted term: a record that says where the value   *)
(* came from (bound input, observed data, a draw of some distribution      *)
(* under some parameters, ...).  A log-probability is the list of density  *)
(* terms that were added up.                                               *)
(***************************************************************************)
EXTENDS Integers, Sequences, FiniteSets, TLC

\* ------------------------------------------------------------------ bounds
\* The number of operations of one behaviour: of Spec, which has every
\* operation, and of SpecDeep, which has the passes over the caches.
MaxOps == 2
MaxDeepOps == 3
\* The number of nested model constructions that ConstructedModels unfolds.
MaxNesting == 4
\* And of SpecObserved, which observes, rebuilds the observed submodel and
\* estimates the evidence.
MaxObservedOps == 4
\* And of SpecAlgebra, which builds symbolic expressions.
MaxExprOps == 3
\* The longest tuple of declared variables handed to a model constructor.
MaxRoots == 2
\* The most variables a caller binds in a partial input assignment.
MaxBound == 1

\* The variables of a behaviour, numbered in the order they were constructed:
\* a parent exists before its child (RandomVariable.__init__ takes parents).
Nodes == 1..4
Names == {"a", "b", "c"}

VARIABLES
    parents,             \* Variable.parents, a tuple of nodes
    kind,                \* Variable._type: "Deterministic" or "Random"
    name,                \* Variable.name
    samples,             \* RandomVariable.samples, a stack of draws
    evaluated,           \* RandomVariable._evaluated
    current_value,       \* Variable._current_value
    observed,            \* Variable._observed
    observed_value,      \* RandomVariable._observed_value
    dataset,             \* RandomVariable.dataset (0: None)
    has_random_dataset,  \* RandomVariable.has_random_dataset
    has_observed_value,  \* RandomVariable.has_observed_value
    model,               \* the joint ProbabilisticModel
    set_objects,         \* the Python sets held as vars or links, by identity
    partial_links,       \* the PartialLink objects, in the order they were made
    last,                \* the last operation: its arguments and what it returned
    budget               \* the number of operations the behaviour may still make

graph == <<parents, kind, name>>
cache == <<samples, evaluated, current_value>>
observation == <<observed, observed_value, dataset, has_random_dataset, has_observed_value>>
vars == <<parents, kind, name, samples, evaluated, current_value, observed,
          observed_value, dataset, has_random_dataset, has_observed_value,
          model, set_objects, partial_links, last, budget>>
algebra == <<set_objects, partial_links>>

\* ------------------------------------------------------------------ values
\* A tensor term.  tag says what it is, of the node it belongs to, args the
\* terms it was computed from, k a serial number.
Val(tag, of, args, k) == [tag |-> tag, of |-> of, args |-> args, k |-> k]
\* Python's None.
NoneVal == Val("None", 0, <<>>, 0)
\* The value a caller binds to node v in an input assignment.
InputVal(v) == Val("input", v, <<>>, 0)
\* The data tensor a caller observes a variable with.
DataVal == Val("data", 0, <<>>, 0)
\* The value given to a DeterministicVariable at construction.
OwnVal(v) == Val("own", v, <<>>, 0)
\* The value a caller assigns through the value setter.
SetVal(v) == Val("set", v, <<>>, 0)

\* What a call returns: a value, or the exception it raised.
Return(v) == [exc |-> "", val |-> v]
Raise(e) == [exc |-> e, val |-> <<>>]

Range(s) == {s[i] : i \in DOMAIN s}
Last(s) == s[Len(s)]

\* Python's {**a, **b}: the entries of a, those of b taking precedence.
DictUpdate(a, b) == b @@ a

\* A dict comprehension {k: ... for k in ...}: the dict is built, entry by
\* entry, when the statement runs.
Dict(d) == DictUpdate(<<>>, d)

\* brancher.utilities.flatten_list: the concatenation of a list of lists.
RECURSIVE flatten_list(_)
flatten_list(ls) ==
    IF ls = <<>> THEN <<>> ELSE Head(ls) \o flatten_list(Tail(ls))

\* brancher.utilities.join_dicts_list: the dicts of a list merged left to right.
RECURSIVE join_dicts_list(_)
join_dicts_list(ds) ==
    IF ds = <<>> THEN <<>>
    ELSE DictUpdate(Head(ds), join_dicts_list(Tail(ds)))

\* ------------------------------------------------------------------ traversal
\* A _flatten that stops at the parents of v: the parents are listed, their
\* own _flatten is not.
VarFlattenShallow(v) == parents[v] \o <<v>>

\* DeterministicVariable._flatten and RandomVariable._flatten.
RECURSIVE VarFlatten(_)
VarFlatten(v) ==
    IF kind[v] = "Deterministic" THEN <<v>>
    ELSE flatten_list([i \in 1..Len(parents[v]) |-> VarFlatten(parents[v][i])]) \o <<v>>

\* ProbabilisticModel._flatten over the declared variables vs.
ModelFlatten(vs) == flatten_list([i \in 1..Len(vs) |-> VarFlatten(vs[i])])

\* BrancherClass.flatten: set(self._flatten()).
flatten(flat_list) == Range(flat_list)

\* brancher.utilities.coerce_to_dtype: the tensor made of raw data x.
coerce_to_dtype(x, is_observed) ==
    Val("coerced", 0, <<x>>, IF is_observed THEN 1 ELSE 0)

\* brancher.utilities.tile_parameter: x repeated along the samples axis.
tile_parameter(x) == Val("tiled", 0, <<x>>, 0)

\* ------------------------------------------------------------------ values of nodes
\* DeterministicVariable.value (learnable = False, the constructor's default).
DetValue(v) == current_value[v]

\* RandomVariable.value.
RVValue(v) == IF observed[v] THEN observed_value[v] ELSE current_value[v]

\* Variable.is_observed.
is_observed(v) == observed[v]

\* ------------------------------------------------------------------ reset
\* The three cache fields, as one record that a recursion threads through.
Cache(s, e, c) == [samples |-> s, evaluated |-> e, current_value |-> c]

\* The variables whose fields a call of reset on v clears: v itself and, by the
\* loop `for parent in self.parents: parent.reset()`, those of its parents.
\* DeterministicVariable.reset is `pass`.
\* A reset that clears the deterministic variables too.
RECURSIVE ResetVisitsAll(_)
ResetVisitsAll(v) ==
    {v} \cup UNION {ResetVisitsAll(parents[v][i]) : i \in DOMAIN parents[v]}

RECURSIVE ResetVisits(_)
ResetVisits(v) ==
    IF kind[v] = "Deterministic" THEN {}
    ELSE {v} \cup UNION {ResetVisits(parents[v][i]) : i \in DOMAIN parents[v]}

\* A reset that stops at v: the loop over the parents left out.
VarResetSelf(v, c) ==
    IF kind[v] = "Deterministic" THEN c
    ELSE Cache([c.samples EXCEPT ![v] = <<>>],
               [c.evaluated EXCEPT ![v] = FALSE],
               [c.current_value EXCEPT ![v] = NoneVal])

\* RandomVariable.reset: every visit assigns the same three constants, so the
\* order of the visits does not show in the result.
VarReset(v, c) ==
    Cache(DictUpdate(c.samples, [u \in ResetVisits(v) |-> <<>>]),
          DictUpdate(c.evaluated, [u \in ResetVisits(v) |-> FALSE]),
          DictUpdate(c.current_value, [u \in ResetVisits(v) |-> NoneVal]))

\* `for variable in self.variables: variable.reset()`.
RECURSIVE ResetEach(_, _)
ResetEach(vs, c) ==
    IF vs = <<>> THEN c ELSE ResetEach(Tail(vs), VarReset(Head(vs), c))

\* ProbabilisticModel.reset over the declared variables vs.
ModelReset(vs, c) == ResetEach(vs, c)

\* ------------------------------------------------------------------ log-probability
\* One density term of a sum: distribution.calculate_log_probability(value,
\* **parameters) of node v, summed over the data axis when v is observed.
Term(v, value, params, summed) ==
    [node |-> v, value |-> value, params |-> params, summed |-> summed]

\* The early return of RandomVariable.calculate_log_probability:
\* `if self._evaluated and not reevaluate: return 0.`
Memoized(ev, v, reevaluate) == ev[v] /\ ~reevaluate

\* parents_values of RandomVariable.calculate_log_probability: the bound values
\* of the parents, overridden by the deterministic parents' own values.
ParentsValues(v, input_values) ==
    LET ps == Range(parents[v])
        parents_input_values ==
            Dict([p \in ps \cap DOMAIN input_values |-> input_values[p]])
        deterministic_parents_values ==
            Dict([p \in {q \in ps : kind[q] = "Deterministic"} |-> DetValue(p)])
    IN DictUpdate(parents_input_values, deterministic_parents_values)

\* log_probability of RandomVariable.calculate_log_probability: the density of
\* the bound value of v, or else of v.value, under the linked parameters.
OwnLogProb(v, input_values) ==
    Term(v, IF v \in DOMAIN input_values THEN input_values[v] ELSE RVValue(v),
         ParentsValues(v, input_values), is_observed(v))

\* `log_probability + parents_log_probability`, and the terms of a sum so far
\* plus those of the next call r.
Plus(terms, r) == [terms |-> terms \o r.terms, evaluated |-> r.evaluated]

\* Variable.calculate_log_probability.  ev is the _evaluated flag of every node
\* as the pass has left it so far; the result is the flags after the call and
\* the terms the call adds to the sum.  ParentsLogProb is the sum over a tuple
\* of variables, each called in turn.
\* A deterministic variable scored like a random one: a density term of its
\* own value.
DetLogProbScored(v, ev) == [evaluated |-> ev, terms |-> <<Term(v, DetValue(v), <<>>, FALSE)>>]

\* DeterministicVariable.calculate_log_probability: `return 0.`, the empty sum.
DetLogProb(v, ev) == [evaluated |-> ev, terms |-> <<>>]

RECURSIVE VarLogProb(_, _, _, _)
RECURSIVE ParentsLogProb(_, _, _, _)
RECURSIVE ParentsLogProbAfter(_, _, _, _)
VarLogProb(v, ev, input_values, reevaluate) ==
    IF kind[v] = "Deterministic" THEN DetLogProb(v, ev)
    ELSE IF Memoized(ev, v, reevaluate) THEN [evaluated |-> ev, terms |-> <<>>]
    ELSE Plus(<<OwnLogProb(v, input_values)>>,
              ParentsLogProb(parents[v], [ev EXCEPT ![v] = TRUE],
                             input_values, reevaluate))
ParentsLogProb(vs, ev, input_values, reevaluate) ==
    IF vs = <<>> THEN [evaluated |-> ev, terms |-> <<>>]
    ELSE ParentsLogProbAfter(VarLogProb(Head(vs), ev, input_values, reevaluate),
                             Tail(vs), input_values, reevaluate)
ParentsLogProbAfter(first, vs, input_values, reevaluate) ==
    Plus(first.terms, ParentsLogProb(vs, first.evaluated, input_values, reevaluate))

\* The sum of ProbabilisticModel.calculate_log_probability over the declared
\* variables vs, each called with reevaluate=False.
ModelLogProb(vs, ev, rv_values) == ParentsLogProb(vs, ev, rv_values, FALSE)

\* ------------------------------------------------------------------ sampling
\* The variable whose parents, link and distribution RandomVariable._get_sample
\* uses for v, given that no cached or bound or observed value is returned.
VarToSample(v, obs_mode) ==
    IF obs_mode /\ has_random_dataset[v] THEN dataset[v] ELSE v

\* The returns of RandomVariable._get_sample that come before the draw: the
\* cached draw, the bound value, the observed value.  "draw": none of them.
CachedOrBound(v, smp, resample, obs_mode, input_values) ==
    IF smp[v] # <<>> /\ ~resample THEN Return(Last(smp[v]))
    ELSE IF ~obs_mode
         THEN IF v \in DOMAIN input_values THEN Return(input_values[v])
              ELSE Raise("draw")
         ELSE IF has_observed_value[v] THEN Return(observed_value[v])
              ELSE Raise("draw")

\* The draw of RandomVariable._get_sample for v, once the parents of
\* var_to_sample are sampled (ps): distribution.get_sample under the linked
\* parameters, pushed on v.samples.  drawn lists the sampler calls of the
\* operation, each as the node that asked and the node whose distribution drew.
Draw(v, var_to_sample, ps, serial) ==
    LET parents_samples_dict == join_dicts_list(ps.outs)
        input_dict == [p \in Range(parents[var_to_sample]) |-> parents_samples_dict[p]]
        sample == Val("draw", var_to_sample, input_dict, <<serial, Len(ps.drawn)>>)
    IN [samples |-> [ps.samples EXCEPT ![v] = Append(@, sample)],
        drawn |-> Append(ps.drawn, [node |-> v, dist |-> var_to_sample]),
        out |-> DictUpdate(parents_samples_dict, v :> sample)]

\* A return of _get_sample that leaves the caches s as they are.
Returned(s, v, value) == [samples |-> s.samples, drawn |-> s.drawn, out |-> (v :> value)]

\* The list of the dicts the parents returned, a parent's dict put first.
Cons(first, rest) ==
    [outs |-> <<first.out>> \o rest.outs, samples |-> rest.samples, drawn |-> rest.drawn]

\* Variable._get_sample.  s.samples is every node's samples stack so far and
\* s.drawn the sampler calls so far; serial numbers the operation.  The result
\* adds the returned dict as out.  ParentsSample is the list comprehension
\* over a tuple of variables, each called in turn.
RECURSIVE VarSample(_, _, _, _, _, _)
RECURSIVE ParentsSample(_, _, _, _, _, _)
RECURSIVE ParentsSampleAfter(_, _, _, _, _, _)
VarSample(v, s, resample, obs_mode, input_values, serial) ==
    IF kind[v] = "Deterministic"
    THEN Returned(s, v, tile_parameter(IF v \in DOMAIN input_values
                                       THEN input_values[v] ELSE DetValue(v)))
    ELSE IF CachedOrBound(v, s.samples, resample, obs_mode, input_values).exc = ""
    THEN Returned(s, v, CachedOrBound(v, s.samples, resample, obs_mode, input_values).val)
    ELSE Draw(v, VarToSample(v, obs_mode),
              ParentsSample(parents[VarToSample(v, obs_mode)], s, resample,
                            obs_mode, input_values, serial),
              serial)
ParentsSample(vs, s, resample, obs_mode, input_values, serial) ==
    IF vs = <<>> THEN [samples |-> s.samples, drawn |-> s.drawn, outs |-> <<>>]
    ELSE ParentsSampleAfter(VarSample(Head(vs), s, resample, obs_mode, input_values, serial),
                            Tail(vs), resample, obs_mode, input_values, serial)
ParentsSampleAfter(first, vs, resample, obs_mode, input_values, serial) ==
    Cons(first, ParentsSample(vs, first, resample, obs_mode, input_values, serial))

\* ------------------------------------------------------------------ lookup by name
\* A dict of names in which the first variable of a name stays.
RECURSIVE NameDictFirst(_)
NameDictFirst(flat_list) ==
    IF flat_list = <<>> THEN <<>>
    ELSE LET var == Last(flat_list)
             before == NameDictFirst(SubSeq(flat_list, 1, Len(flat_list) - 1))
         IN DictUpdate(name[var] :> var, before)

\* The dict {var.name: var for var in flat_list}: a later variable of the list
\* replaces an earlier one of the same name.
RECURSIVE NameDict(_)
NameDict(flat_list) ==
    IF flat_list = <<>> THEN <<>>
    ELSE LET var == Last(flat_list)
             before == NameDict(SubSeq(flat_list, 1, Len(flat_list) - 1))
         IN DictUpdate(before, name[var] :> var)

\* Python's d[key]: the value, or KeyError.
DictGet(d, key) == IF key \in DOMAIN d THEN Return(d[key]) ELSE Raise("KeyError")

\* A get_variable that looks up with dict.get: None for a name that is missing.
get_variable_or_none(flat_list, var_name) ==
    LET got == DictGet(NameDict(flat_list), var_name)
    IN IF got.exc = "" THEN got ELSE Return(0)

\* BrancherClass.get_variable on the list self._flatten(): the lookup, whose
\* `except ValueError` turns a ValueError, and nothing else, into the
\* ValueError of the message.
get_variable(flat_list, var_name) ==
    LET got == DictGet(NameDict(flat_list), var_name)
    IN IF got.exc = "ValueError" THEN Raise("ValueError") ELSE got

\* ------------------------------------------------------------------ posterior coupling
\* PosteriorModel.set_model_mapping: the loop over the joint model's flatten
\* list ps, mapping the mapping built so far; got is what
\* self.get_variable(p_var.name) returned or raised.  `except KeyError: pass`.
RECURSIVE MappingLoop(_, _, _)
MappingTurn(qs, ps, mapping, got) ==
    IF got.exc = "" THEN MappingLoop(qs, Tail(ps), DictUpdate(mapping, got.val :> Head(ps)))
    ELSE IF got.exc = "KeyError" THEN MappingLoop(qs, Tail(ps), mapping)
    ELSE Raise(got.exc)
MappingLoop(qs, ps, mapping) ==
    IF ps = <<>> THEN Return(mapping)
    ELSE MappingTurn(qs, ps, mapping, get_variable(ModelFlatten(qs), name[Head(ps)]))

set_model_mapping(qs, ps) == MappingLoop(qs, ps, <<>>)

\* A posterior_sample2joint_sample that keeps the posterior variables as the
\* keys: the entries that are mapped, not translated.
posterior_sample_mapped_only(model_mapping, posterior_sample) ==
    Dict([q \in DOMAIN posterior_sample \cap DOMAIN model_mapping |-> posterior_sample[q]])

\* PosteriorModel.posterior_sample2joint_sample.  A dict is walked in the order
\* of its keys; two keys never have the same image, so the order does not show.
posterior_sample2joint_sample(model_mapping, posterior_sample) ==
    LET kept == {q \in DOMAIN posterior_sample : DictGet(model_mapping, q).exc = ""}
    IN Dict([p \in {model_mapping[q] : q \in kept} |->
                posterior_sample[CHOOSE q \in kept : model_mapping[q] = p]])

\* ------------------------------------------------------------------ models
\* The model before any constructor has run.
NoModel ==
    [constructed |-> FALSE, variables |-> <<>>,
     posterior_model |-> [attached |-> FALSE, variables |-> <<>>, model_mapping |-> <<>>],
     observed_submodel |-> [is_self |-> TRUE, variables |-> <<>>]]

\* self.posterior_model = None.
NoPosterior == NoModel.posterior_model

\* An update_observed_submodel that looks at the declared variables only.
ObservedSubmodelDeclared(vs) ==
    [is_self |-> FALSE, variables |-> SelectSeq(vs, LAMBDA var : is_observed(var))]

\* An observed submodel of every variable of the _flatten() list, observed or not.
ObservedSubmodelUnfiltered(vs) ==
    [is_self |-> FALSE, variables |-> ModelFlatten(vs)]

\* ProbabilisticModel.update_observed_submodel: the model of the observed
\* variables of the _flatten() list.  That model's variables are all observed,
\* so its own constructor takes the `else` branch and builds nothing further.
ObservedSubmodel(vs) ==
    [is_self |-> FALSE,
     variables |-> SelectSeq(ModelFlatten(vs), LAMBDA var : is_observed(var))]

\* An object handed to a model constructor that is no Variable.
NotAVariable == 0

\* A validation that takes a RandomVariable only.
validate_random_only(variables) ==
    IF \A i \in DOMAIN variables : variables[i] \in Nodes /\ kind[variables[i]] = "Random"
    THEN Return(variables) ELSE Raise("ValueError")

\* ProbabilisticModel._validate_variables: every node is a
\* DeterministicVariable or a RandomVariable.
validate_variables(variables) ==
    IF \A i \in DOMAIN variables : variables[i] \in Nodes
    THEN Return(variables) ELSE Raise("ValueError")

\* ProbabilisticModel.__init__ on the declared variables vs, once validated.
NewModel(vs) ==
    [constructed |-> TRUE, variables |-> vs, posterior_model |-> NoPosterior,
     observed_submodel |->
        IF ~(\A i \in DOMAIN vs : is_observed(vs[i]))
        THEN ObservedSubmodel(vs)
        ELSE [is_self |-> TRUE, variables |-> <<>>]]

\* The models that ProbabilisticModel(vs) constructs, as the list of their
\* declared variables, outermost first: __init__ calls update_observed_submodel
\* when some declared variable is not observed, and that constructs the model
\* of the observed variables, whose __init__ runs in turn.  fixed tells that the
\* last model of the chain took the `else` branch (observed_submodel = self);
\* the unfolding stops after fuel nested constructions.
RECURSIVE ConstructedModels(_, _)
ConstructedModels(vs, fuel) ==
    IF \A i \in DOMAIN vs : is_observed(vs[i])
    THEN [chain |-> <<vs>>, fixed |-> TRUE]
    ELSE IF fuel = 0
         THEN [chain |-> <<vs>>, fixed |-> FALSE]
         ELSE LET sub == ConstructedModels(ObservedSubmodel(vs).variables, fuel - 1) IN
              [chain |-> <<vs>> \o sub.chain, fixed |-> sub.fixed]

\* The declared variables of self.observed_submodel.
ObservedVariables(m) ==
    IF m.observed_submodel.is_self THEN m.variables ELSE m.observed_submodel.variables

\* A check_posterior_model that lets a model without a posterior through.
check_posterior_model_absent(m) == Return(<<>>)

\* ProbabilisticModel.check_posterior_model.
check_posterior_model(m) ==
    IF ~m.posterior_model.attached THEN Raise("AttributeError") ELSE Return(<<>>)

\* PosteriorModel.__init__ from a model with declared variables qs and the
\* mapping that set_model_mapping returned.
PosteriorModel(qs, mapping) ==
    IF mapping.exc # "" THEN mapping
    ELSE Return([attached |-> TRUE, variables |-> qs, model_mapping |-> mapping.val])

\* The model ProbabilisticModel(vs) after
\* set_posterior_model(ProbabilisticModel(qs)); qs = <<>> stands for no such call.
WithPosterior(vs, qs) ==
    IF qs = <<>> THEN NewModel(vs)
    ELSE [NewModel(vs) EXCEPT !.posterior_model =
            PosteriorModel(qs, set_model_mapping(qs, ModelFlatten(vs))).val]

\* ------------------------------------------------------------------ initial states
\* The shapes of DAG a behaviour starts from: a diamond, a ladder (a parent of
\* the root is an ancestor of the root's other parent) in both orders of the
\* root's parents, two separate chains, two children sharing one parent, and a
\* chain with a variable apart.
Graphs ==
    { << <<>>, <<1>>, <<1>>, <<2, 3>> >>,
      << <<>>, <<1>>, <<2>>, <<>> >>,
      << <<>>, <<1>>, <<2>>, <<2, 3>> >>,
      << <<>>, <<1>>, <<2>>, <<3, 2>> >>,
      << <<>>, <<1>>, <<>>, <<3>> >>,
      << <<>>, <<>>, <<1, 2>>, <<1>> >> }

\* The names the variables were given: names are not checked to be unique.
NameSchemes == { <<"a", "b", "a", "b">> }
\* Every way to name the variables alike or apart, up to renaming.
AllNameSchemes == {f \in [Nodes -> Names] : f[1] = "a" /\ f[2] \in {"a", "b"}}

\* The tuples of declared variables a model is constructed from: the joint
\* model from the variables constructed last, the model handed to
\* set_posterior_model from those constructed first.  A tuple may name a
\* variable twice, and a variable and one of its ancestors.
RootTuples(S) == UNION {[1..n -> S] : n \in 1..MaxRoots}
JointRoots == RootTuples({3, 4})
PosteriorRoots == RootTuples({1, 2})
\* The tuples handed to a constructor: those, and ones with a member that is
\* no Variable.
Members == JointRoots \cup {<<NotAVariable>>, <<3, NotAVariable>>, <<NotAVariable, 4>>}

\* The input assignments the callers pass: none, a few variables, or all.
InputDicts ==
    {[x \in S |-> InputVal(x)] :
        S \in {T \in SUBSET Nodes : Cardinality(T) <= MaxBound \/ T = Nodes}}

\* What `last` holds.
Op(op, node, input, ret, drawn) ==
    [op |-> op, node |-> node, input |-> input, ret |-> ret, drawn |-> drawn]

\* The state after the variables and the joint model were constructed, and a
\* posterior model of posteriors attached.
Start(n, schemes, posteriors) ==
    /\ parents \in Graphs
    /\ kind \in [Nodes -> {"Deterministic", "Random"}]
    /\ \A v \in Nodes : kind[v] = "Deterministic" => parents[v] = <<>>
    /\ name \in schemes
    /\ samples = [v \in Nodes |-> <<>>]
    /\ evaluated = [v \in Nodes |-> FALSE]
    /\ current_value = [v \in Nodes |->
            IF kind[v] = "Deterministic" THEN coerce_to_dtype(OwnVal(v), FALSE) ELSE NoneVal]
    /\ observed = [v \in Nodes |-> FALSE]
    /\ observed_value = [v \in Nodes |-> NoneVal]
    /\ dataset = [v \in Nodes |-> 0]
    /\ has_random_dataset = [v \in Nodes |-> FALSE]
    /\ has_observed_value = [v \in Nodes |-> FALSE]
    /\ \E vs \in JointRoots, qs \in posteriors : model = WithPosterior(vs, qs)
    /\ set_objects = <<>>
    /\ partial_links = <<>>
    /\ last = Op("init", 0, <<>>, Return(<<>>), <<>>)
    /\ budget = n

Init == Start(MaxOps, NameSchemes, {<<>>})

\* ------------------------------------------------------------------ model-level passes
\* The caches and the sampler calls so far, as one record that the steps of an
\* operation thread through.
World(c, drawn) ==
    [samples |-> c.samples, evaluated |-> c.evaluated,
     current_value |-> c.current_value, drawn |-> drawn]

\* brancher.utilities.reformat_sampler_input over pandas_frame2dict: the same
\* keys, each value made a tensor of the sampler's shape.
reformat_sampler_input(input_values) ==
    Dict([x \in DOMAIN input_values |-> Val("reformatted", 0, <<input_values[x]>>, 0)])

\* The end of ProbabilisticModel.calculate_log_probability: self.reset(), and
\* the sum r is returned.
ResetAndReturnSum(vs, w, r) ==
    [ret |-> Return(r.terms),
     w |-> World(ModelReset(vs, Cache(w.samples, r.evaluated, w.current_value)), w.drawn)]

\* ProbabilisticModel.calculate_log_probability of the model with declared
\* variables vs.
ModelCalculateLogProbability(vs, w, rv_values) ==
    ResetAndReturnSum(vs, w, ModelLogProb(vs, w.evaluated, rv_values))

\* The end of ProbabilisticModel._get_sample: the parents' dicts ps joined,
\* joint_sample.update(input_values), self.reset().
ResetAndReturnSample(vs, w, input_values, ps) ==
    [ret |-> Return(DictUpdate(join_dicts_list(ps.outs), input_values)),
     w |-> World(ModelReset(vs, Cache(ps.samples, w.evaluated, w.current_value)), ps.drawn)]

\* ProbabilisticModel._get_sample of the model with declared variables vs.
ModelSample(vs, w, obs_mode, input_values, serial) ==
    ResetAndReturnSample(vs, w, input_values,
                         ParentsSample(vs, w, FALSE, obs_mode, input_values, serial))

\* The end of PosteriorModel._get_posterior_sample: the sample r translated,
\* sample.update(input_values).
Translated(pm, input_values, r) ==
    [ret |-> Return(DictUpdate(posterior_sample2joint_sample(pm.model_mapping, r.ret.val),
                               input_values)),
     w |-> r.w]

\* PosteriorModel._get_posterior_sample of the posterior model pm.
PosteriorGetPosteriorSample(pm, w, input_values, serial) ==
    Translated(pm, input_values, ModelSample(pm.variables, w, FALSE, input_values, serial))

\* The end of ProbabilisticModel._get_posterior_sample:
\* self._get_sample(number_samples, input_values=posterior_sample).
SampleGiven(m, posterior_sample, serial) ==
    IF posterior_sample.ret.exc # "" THEN posterior_sample
    ELSE ModelSample(m.variables, posterior_sample.w, FALSE, posterior_sample.ret.val, serial)

\* ProbabilisticModel._get_posterior_sample of the joint model m.
ModelGetPosteriorSample(m, w, input_values, serial) ==
    IF check_posterior_model(m).exc # "" THEN [w |-> w, ret |-> check_posterior_model(m)]
    ELSE SampleGiven(m, PosteriorGetPosteriorSample(m.posterior_model, w,
                                                    input_values, serial), serial)

\* The steps of ProbabilisticModel.estimate_log_model_evidence, last first.
\* A step that raised ends the call with its exception.
\* F.mean(joint_log_prob - posterior_log_prob), kept as its two sums.
Elbo(posterior_log_prob, joint_log_prob) ==
    IF joint_log_prob.ret.exc # "" THEN joint_log_prob
    ELSE [ret |-> Return([joint |-> joint_log_prob.ret.val,
                          posterior |-> posterior_log_prob.ret.val]),
          w |-> joint_log_prob.w]

\* joint_log_prob = self.calculate_log_probability(samples).
EstimateJoint(m, joint_values, posterior_log_prob) ==
    IF posterior_log_prob.ret.exc # "" THEN posterior_log_prob
    ELSE Elbo(posterior_log_prob,
              ModelCalculateLogProbability(m.variables, posterior_log_prob.w, joint_values))

\* posterior_log_prob, and samples.update(posterior_sample2joint_sample(...)).
EstimatePosterior(m, observed_values, posterior_samples) ==
    IF posterior_samples.ret.exc # "" THEN posterior_samples
    ELSE EstimateJoint(m,
            DictUpdate(observed_values,
                       posterior_sample2joint_sample(m.posterior_model.model_mapping,
                                                     posterior_samples.ret.val)),
            ModelCalculateLogProbability(m.posterior_model.variables, posterior_samples.w,
                                         posterior_samples.ret.val))

\* posterior_samples = self.posterior_model._get_sample(...), after the
\* observed submodel was sampled in observed mode (obs).
EstimateObserved(m, obs, input_values, serial) ==
    IF obs.ret.exc # "" THEN obs
    ELSE EstimatePosterior(m, obs.ret.val,
            ModelSample(m.posterior_model.variables, obs.w, FALSE, input_values, serial))

\* The method argument of estimate_log_model_evidence: the default, and one
\* that is not implemented.
Methods == {"ELBO", "importance"}

\* An estimate_log_model_evidence that computes the ELBO whatever the method.
EstimateWhateverMethod(m, w, method, input_values, serial) ==
    IF check_posterior_model(m).exc # "" THEN [w |-> w, ret |-> check_posterior_model(m)]
    ELSE EstimateObserved(m, ModelSample(ObservedVariables(m), w, TRUE, <<>>, serial),
                          input_values, serial)

\* ProbabilisticModel.estimate_log_model_evidence of the joint model m.
EstimateLogModelEvidence(m, w, method, input_values, serial) ==
    IF check_posterior_model(m).exc # "" THEN [w |-> w, ret |-> check_posterior_model(m)]
    ELSE IF method # "ELBO" THEN [w |-> w, ret |-> Raise("NotImplementedError")]
    ELSE EstimateObserved(m, ModelSample(ObservedVariables(m), w, TRUE, <<>>, serial),
                          input_values, serial)

\* The end of Variable.get_sample: the entry of v, and self.reset().
ResetAndReturnOwn(v, w, r) ==
    [ret |-> Return(v :> r.out[v]),
     w |-> World(VarReset(v, Cache(r.samples, w.evaluated, w.current_value)), r.drawn)]

\* Variable.get_sample of node v.
VarGetSample(v, w, input_values, serial) ==
    ResetAndReturnOwn(v, w, VarSample(v, w, FALSE, is_observed(v), input_values, serial))

\* The caches now.
Now == World(Cache(samples, evaluated, current_value), <<>>)

\* The operation leaves the caches of r.w and has returned r.ret.
Done(op, node, input, r) ==
    /\ last' = Op(op, node, input, r.ret, r.w.drawn)
    /\ samples' = r.w.samples
    /\ evaluated' = r.w.evaluated
    /\ current_value' = r.w.current_value

\* set_posterior_model: the posterior model pm is attached, unless its
\* constructor raised.
Attached(qs, pm) ==
    /\ model' = IF pm.exc = "" THEN [model EXCEPT !.posterior_model = pm.val] ELSE model
    /\ last' = Op("set_posterior_model", 0, <<>>, IF pm.exc = "" THEN Return(qs) ELSE pm, <<>>)

\* ------------------------------------------------------------------ operations
\* One operation on the variables or the models: no expression is built.
Step == budget > 0 /\ budget' = budget - 1 /\ UNCHANGED algebra

\* The nodes that sampling v in observed mode descends to, when the datasets
\* are ds and flagged by hrd: the parents of v and of v's dataset.
SamplingParents(v, ds, hrd) ==
    Range(parents[v]) \cup (IF hrd[v] THEN Range(parents[ds[v]]) ELSE {})

RECURSIVE SamplingReach(_, _, _, _)
SamplingReach(S, n, ds, hrd) ==
    IF n = 0 THEN S
    ELSE SamplingReach(S \cup UNION {SamplingParents(x, ds, hrd) : x \in S}, n - 1, ds, hrd)

\* No variable is sampled through itself: the recursion of _get_sample ends.
SamplingEnds(ds, hrd) ==
    \A v \in Nodes : v \notin SamplingReach(SamplingParents(v, ds, hrd), Cardinality(Nodes), ds, hrd)

\* RandomVariable.observe(data) with a data tensor.
Observe(v) ==
    /\ Step
    /\ kind[v] = "Random"
    /\ observed_value' = [observed_value EXCEPT ![v] = coerce_to_dtype(DataVal, TRUE)]
    /\ has_observed_value' = [has_observed_value EXCEPT ![v] = TRUE]
    /\ observed' = [observed EXCEPT ![v] = TRUE]
    /\ last' = Op("observe", v, <<>>, Return(<<>>), <<>>)
    /\ UNCHANGED <<graph, cache, dataset, has_random_dataset, model>>

\* RandomVariable.observe(data) with a RandomVariable d as the data.
ObserveDataset(v, d) ==
    /\ Step
    /\ kind[v] = "Random" /\ kind[d] = "Random"
    /\ SamplingEnds([dataset EXCEPT ![v] = d], [has_random_dataset EXCEPT ![v] = TRUE])
    /\ dataset' = [dataset EXCEPT ![v] = d]
    /\ has_random_dataset' = [has_random_dataset EXCEPT ![v] = TRUE]
    /\ observed' = [observed EXCEPT ![v] = TRUE]
    /\ last' = Op("observe_dataset", v, <<>>, Return(<<>>), <<>>)
    /\ UNCHANGED <<graph, cache, observed_value, has_observed_value, model>>

\* RandomVariable.unobserve().
Unobserve(v) ==
    /\ Step
    /\ kind[v] = "Random"
    /\ observed' = [observed EXCEPT ![v] = FALSE]
    /\ has_observed_value' = [has_observed_value EXCEPT ![v] = FALSE]
    /\ has_random_dataset' = [has_random_dataset EXCEPT ![v] = FALSE]
    /\ observed_value' = [observed_value EXCEPT ![v] = NoneVal]
    /\ dataset' = [dataset EXCEPT ![v] = 0]
    /\ last' = Op("unobserve", v, <<>>, Return(<<>>), <<>>)
    /\ UNCHANGED <<graph, cache, model>>

\* The value setter of RandomVariable and of DeterministicVariable.
SetValue(v) ==
    /\ Step
    /\ current_value' = [current_value EXCEPT ![v] =
            coerce_to_dtype(SetVal(v), kind[v] = "Deterministic" /\ is_observed(v))]
    /\ last' = Op("set_value", v, <<>>, Return(<<>>), <<>>)
    /\ UNCHANGED <<graph, samples, evaluated, observation, model>>

\* Variable.reset() called on node v.
Reset(v) ==
    /\ Step
    /\ Done("reset", v, <<>>,
            [w |-> World(VarReset(v, Cache(samples, evaluated, current_value)), <<>>),
             ret |-> Return(<<>>)])
    /\ UNCHANGED <<graph, observation, model>>

\* model.reset().
ResetModel ==
    /\ Step
    /\ model.constructed
    /\ Done("reset_model", 0, <<>>,
            [w |-> World(ModelReset(model.variables, Cache(samples, evaluated, current_value)),
                         <<>>),
             ret |-> Return(<<>>)])
    /\ UNCHANGED <<graph, observation, model>>

\* Variable.calculate_log_probability(input_values, reevaluate) called on node
\* v: the sum r is returned and the flags stay as the call left them.
ReturnSum(r) ==
    [w |-> World(Cache(samples, r.evaluated, current_value), <<>>), ret |-> Return(r.terms)]

CalculateLogProbability(v, input_values, reevaluate) ==
    /\ Step
    /\ Done(IF reevaluate THEN "var_log_probability" ELSE "var_log_probability_memo",
            v, input_values, ReturnSum(VarLogProb(v, evaluated, input_values, reevaluate)))
    /\ UNCHANGED <<graph, observation, model>>

\* model = ProbabilisticModel(variables): a constructor that raises leaves the
\* name bound to the model it was bound to.
ConstructModel(variables) ==
    /\ Step
    /\ model' = IF validate_variables(variables).exc = "" THEN NewModel(variables) ELSE model
    /\ last' = Op("construct", 0, <<>>, validate_variables(variables), <<>>)
    /\ UNCHANGED <<graph, cache, observation>>

\* model.update_observed_submodel().
UpdateObservedSubmodel ==
    /\ Step
    /\ model.constructed
    /\ model' = [model EXCEPT !.observed_submodel = ObservedSubmodel(model.variables)]
    /\ last' = Op("update_observed_submodel", 0, <<>>, Return(<<>>), <<>>)
    /\ UNCHANGED <<graph, cache, observation>>

\* model.set_posterior_model(ProbabilisticModel(qs)).
SetPosteriorModel(qs) ==
    /\ Step
    /\ model.constructed
    /\ Attached(qs, PosteriorModel(qs, set_model_mapping(qs, ModelFlatten(model.variables))))
    /\ UNCHANGED <<graph, cache, observation>>

\* model.calculate_log_probability(rv_values).
CalculateModelLogProbability(rv_values) ==
    /\ Step
    /\ model.constructed
    /\ Done("calculate_log_probability", 0, rv_values,
            ModelCalculateLogProbability(model.variables, Now, rv_values))
    /\ UNCHANGED <<graph, observation, model>>

\* model.get_sample(number_samples, input_values), before the pandas frame is made.
GetModelSample(input_values) ==
    /\ Step
    /\ model.constructed
    /\ Done("get_sample", 0, input_values,
            ModelSample(model.variables, Now, FALSE,
                        reformat_sampler_input(input_values), budget))
    /\ UNCHANGED <<graph, observation, model>>

\* model.get_posterior_sample(number_samples, input_values), before the pandas
\* frame is made.
GetPosteriorSample(input_values) ==
    /\ Step
    /\ model.constructed
    /\ Done("get_posterior_sample", 0, input_values,
            ModelGetPosteriorSample(model, Now, reformat_sampler_input(input_values), budget))
    /\ UNCHANGED <<graph, observation, model>>

\* model.estimate_log_model_evidence(number_samples, method, input_values).
EstimateEvidence(method, input_values) ==
    /\ Step
    /\ model.constructed
    /\ Done("estimate_log_model_evidence", 0, input_values,
            EstimateLogModelEvidence(model, Now, method, input_values, budget))
    /\ UNCHANGED <<graph, observation, model>>

\* Variable.get_sample(number_samples, input_values) called on node v, before
\* the pandas frame is made.
GetSample(v, input_values) ==
    /\ Step
    /\ Done("var_get_sample", v, input_values,
            VarGetSample(v, Now, reformat_sampler_input(input_values), budget))
    /\ UNCHANGED <<graph, observation, model>>

\* flatten() called on node v, and on the model.
Flatten(v) ==
    /\ Step
    /\ last' = Op("var_flatten", v, <<>>, Return(flatten(VarFlatten(v))), <<>>)
    /\ UNCHANGED <<graph, cache, observation, model>>

FlattenModel ==
    /\ Step
    /\ model.constructed
    /\ last' = Op("flatten", 0, <<>>, Return(flatten(ModelFlatten(model.variables))), <<>>)
    /\ UNCHANGED <<graph, cache, observation, model>>

\* model.get_variable(var_name).
GetVariable(var_name) ==
    /\ Step
    /\ model.constructed
    /\ last' = Op("get_variable", 0, var_name,
                  get_variable(ModelFlatten(model.variables), var_name), <<>>)
    /\ UNCHANGED <<graph, cache, observation, model>>

\* model.posterior_model.posterior_sample2joint_sample(posterior_sample).
PosteriorSample2JointSample(posterior_sample) ==
    /\ Step
    /\ model.posterior_model.attached
    /\ last' = Op("posterior_sample2joint_sample", 0, posterior_sample,
                  Return(posterior_sample2joint_sample(model.posterior_model.model_mapping,
                                                       posterior_sample)), <<>>)
    /\ UNCHANGED <<graph, cache, observation, model>>

\* ------------------------------------------------------------------ symbolic algebra
\* What a fn evaluates to: a Python number n/d (float says whether it is a
\* float), a tuple of such values, or the exception the evaluation raised.
Num(n, d, float) ==
    [exc |-> "", tup |-> FALSE, float |-> float, n |-> n, d |-> d, items |-> <<>>]
Tup(items) ==
    [exc |-> "", tup |-> TRUE, float |-> FALSE, n |-> 0, d |-> 1, items |-> items]
Err(e) ==
    [exc |-> e, tup |-> FALSE, float |-> FALSE, n |-> 0, d |-> 1, items |-> <<>>]

Abs(i) == IF i < 0 THEN -i ELSE i

RECURSIVE GCD(_, _)
GCD(a, b) == IF b = 0 THEN a ELSE GCD(b, a % b)

\* The number n/d in lowest terms, d > 0.
Ratio(n, d, float) ==
    Num((IF d < 0 THEN -n ELSE n) \div GCD(Abs(n), Abs(d)), Abs(d) \div GCD(Abs(n), Abs(d)), float)

\* x ** k for an int k >= 0.
RECURSIVE Power(_, _)
Power(x, k) ==
    IF k = 0 THEN Num(1, 1, x.float)
    ELSE Ratio(x.n * Power(x, k - 1).n, x.d * Power(x, k - 1).d, x.float)

\* operator.add, sub, mul, truediv and pow of Python on two such values.
Operator(op, x, y) ==
    CASE op = "add" ->
            IF x.tup /\ y.tup THEN Tup(x.items \o y.items)
            ELSE IF x.tup \/ y.tup THEN Err("TypeError")
            ELSE Ratio(x.n * y.d + y.n * x.d, x.d * y.d, x.float \/ y.float)
      [] op = "sub" ->
            IF x.tup \/ y.tup THEN Err("TypeError")
            ELSE Ratio(x.n * y.d - y.n * x.d, x.d * y.d, x.float \/ y.float)
      [] op = "mul" ->
            IF x.tup /\ y.tup THEN Err("TypeError")
            ELSE IF x.tup
                 THEN IF y.float THEN Err("TypeError")
                      ELSE Tup([i \in 1..(Len(x.items) * (IF y.n > 0 THEN y.n ELSE 0)) |->
                                    x.items[((i - 1) % Len(x.items)) + 1]])
            ELSE IF y.tup
                 THEN IF x.float THEN Err("TypeError")
                      ELSE Tup([i \in 1..(Len(y.items) * (IF x.n > 0 THEN x.n ELSE 0)) |->
                                    y.items[((i - 1) % Len(y.items)) + 1]])
            ELSE Ratio(x.n * y.n, x.d * y.d, x.float \/ y.float)
      [] op = "truediv" ->
            IF x.tup \/ y.tup THEN Err("TypeError")
            ELSE IF y.n = 0 THEN Err("ZeroDivisionError")
            ELSE Ratio(x.n * y.d, x.d * y.n, TRUE)
      [] op = "pow" ->
            IF x.tup \/ y.tup THEN Err("TypeError")
            ELSE CASE y.d = 1 /\ y.n >= 0 ->
                        [Power(x, y.n) EXCEPT !.float = x.float \/ y.float]
                   [] y.d = 1 /\ y.n < 0 ->
                        IF x.n = 0 THEN Err("ZeroDivisionError")
                        ELSE [Power(Ratio(x.d, x.n, TRUE), -y.n) EXCEPT !.float = TRUE]

\* A fn: the expression a PartialLink's lambda computes.  op is "var" (the
\* lookup values[var]), "const" (a captured number), "tuple", an operator, or
\* "getitem" or "shape"; args are the fns it closes over.
Expr(op, var, const, args) == [op |-> op, var |-> var, const |-> const, args |-> args]
VarExpr(v) == Expr("var", v, 0, <<>>)
ConstExpr(c) == Expr("const", 0, c, <<>>)
Binary(op, l, r) == Expr(op, 0, 0, <<l, r>>)

\* fn(values): the evaluation of the lambda under the assignment values.
\* Python evaluates the arguments of op(...) from left to right, so an
\* exception of the left one is the one raised.  A number has no slice
\* [:, key] and no attribute shape, and neither has a tuple.
RECURSIVE Eval(_, _)
Eval(e, values) ==
    CASE e.op = "var" -> Num(values[e.var], 1, FALSE)
      [] e.op = "const" -> Num(e.const, 1, FALSE)
      [] e.op = "tuple" ->
            IF \E i \in DOMAIN e.args : Eval(e.args[i], values).exc # ""
            THEN Eval(e.args[CHOOSE i \in DOMAIN e.args :
                                 /\ Eval(e.args[i], values).exc # ""
                                 /\ \A j \in 1..(i - 1) : Eval(e.args[j], values).exc = ""],
                      values)
            ELSE Tup([i \in DOMAIN e.args |-> Eval(e.args[i], values)])
      [] e.op = "getitem" ->
            IF Eval(e.args[1], values).exc # "" THEN Eval(e.args[1], values)
            ELSE Err("TypeError")
      [] e.op = "shape" ->
            IF Eval(e.args[1], values).exc # "" THEN Eval(e.args[1], values)
            ELSE Err("AttributeError")
      [] OTHER ->
            IF Eval(e.args[1], values).exc # "" THEN Eval(e.args[1], values)
            ELSE IF Eval(e.args[2], values).exc # "" THEN Eval(e.args[2], values)
            ELSE Operator(e.op, Eval(e.args[1], values), Eval(e.args[2], values))

\* What stands on either side of an operator: a Variable (ref is its node), a
\* PartialLink (ref is its place in partial_links), a number (ref is the
\* number), a tuple of Variables and PartialLinks (items), or a str.
Operand(type, ref, items) == [type |-> type, ref |-> ref, items |-> items]
VariableOperand(v) == Operand("Variable", v, <<>>)
PartialLinkOperand(i) == Operand("PartialLink", i, <<>>)
Number(c) == Operand("number", c, <<>>)

\* The objects of the algebra: the Python sets and the PartialLinks.
Heap(sets, links) == [sets |-> sets, links |-> links]

\* sets made by a set display or by union: new objects, after those of H.
Allocated(H, sets) == [H EXCEPT !.sets = @ \o sets]

\* PartialLink.__init__: the object keeps the very sets it is handed.
PartialLink(var_set, fn, links) == [vars |-> var_set, fn |-> fn, links |-> links]

\* return PartialLink(...): the new object, after those of H.
Constructed(H, link) ==
    [ret |-> Return(Len(H.links) + 1), heap |-> [H EXCEPT !.links = Append(@, link)]]

\* Variable._apply_operator.  With a PartialLink, vars is the operand's own
\* set, to which self is added, and links is the operand's own links set.
Variable_apply_operator(self, other, op, H) ==
    CASE other.type = "PartialLink" ->
            Constructed([H EXCEPT !.sets[H.links[other.ref].vars] = @ \cup {self}],
                        PartialLink(H.links[other.ref].vars,
                                    Binary(op, VarExpr(self), H.links[other.ref].fn),
                                    H.links[other.ref].links))
      [] other.type = "Variable" ->
            Constructed(Allocated(H, <<{self, other.ref}, {}>>),
                        PartialLink(Len(H.sets) + 1,
                                    Binary(op, VarExpr(self), VarExpr(other.ref)),
                                    Len(H.sets) + 2))
      [] other.type = "number" ->
            Constructed(Allocated(H, <<{self}, {}>>),
                        PartialLink(Len(H.sets) + 1,
                                    Binary(op, VarExpr(self), ConstExpr(other.ref)),
                                    Len(H.sets) + 2))
      [] OTHER -> [ret |-> Raise("TypeError"), heap |-> H]

\* What var2link hands back, by value: whether the object has vars and links,
\* and then the members of both and its fn.
Linked(has_vars, var_set, fn, links) ==
    [has_vars |-> has_vars, vars |-> var_set, fn |-> fn, links |-> links]

\* brancher.utilities.join_sets_list: the union of a list of sets.
join_sets_list(sets) == UNION {sets[i] : i \in DOMAIN sets}

\* The vars and the fn of one item of a tuple.
ItemVars(item, H) ==
    IF item.type = "Variable" THEN {item.ref} ELSE H.sets[H.links[item.ref].vars]
ItemFn(item, H) ==
    IF item.type = "Variable" THEN VarExpr(item.ref) ELSE H.links[item.ref].fn

\* var2link: a Variable, a number and a tuple of Variables and PartialLinks
\* are wrapped in a new PartialLink; anything else is returned as it is, a
\* PartialLink with its sets and a str without any.
var2link(var, H) ==
    CASE var.type = "Variable" -> Linked(TRUE, {var.ref}, VarExpr(var.ref), {})
      [] var.type = "number" -> Linked(TRUE, {}, ConstExpr(var.ref), {})
      [] var.type = "tuple"
            /\ \A i \in DOMAIN var.items : var.items[i].type \in {"Variable", "PartialLink"} ->
            Linked(TRUE, join_sets_list([i \in DOMAIN var.items |-> ItemVars(var.items[i], H)]),
                   Expr("tuple", 0, 0, [i \in DOMAIN var.items |-> ItemFn(var.items[i], H)]),
                   {})
      [] var.type = "PartialLink" ->
            Linked(TRUE, H.sets[H.links[var.ref].vars], H.links[var.ref].fn,
                   H.sets[H.links[var.ref].links])
      [] OTHER -> Linked(FALSE, {}, ConstExpr(0), {})

\* The return of PartialLink._apply_operator: other.vars raises on an object
\* without vars, else the unions are new sets.
Unions(self, other, op, H) ==
    IF ~other.has_vars THEN [ret |-> Raise("AttributeError"), heap |-> H]
    ELSE Constructed(Allocated(H, <<H.sets[H.links[self].vars] \cup other.vars,
                                    H.sets[H.links[self].links] \cup other.links>>),
                     PartialLink(Len(H.sets) + 1, Binary(op, H.links[self].fn, other.fn),
                                 Len(H.sets) + 2))

\* PartialLink._apply_operator of the PartialLink at self.
PartialLink_apply_operator(self, other, op, H) == Unions(self, var2link(other, H), op, H)

\* x._apply_operator(other, op) of the class of x.
apply_operator(x, other, op, H) ==
    IF x.type = "Variable" THEN Variable_apply_operator(x.ref, other, op, H)
    ELSE PartialLink_apply_operator(x.ref, other, op, H)

\* -1*r: int has no product with a PartialLink, so r.__rmul__(-1) is called,
\* which is r.__mul__(-1).
MinusOneTimes(r) ==
    IF r.ret.exc # "" THEN r
    ELSE PartialLink_apply_operator(r.ret.val, Number(-1), "mul", r.heap)

\* __rsub__ of Variable and of PartialLink.
rsub(x, other, H) == MinusOneTimes(apply_operator(x, other, "sub", H))

\* The arithmetic dunder methods of Variable and of PartialLink.
Dunder(x, method, other, H) ==
    CASE method \in {"__add__", "__radd__"} -> apply_operator(x, other, "add", H)
      [] method = "__sub__" -> apply_operator(x, other, "sub", H)
      [] method = "__rsub__" -> rsub(x, other, H)
      [] method \in {"__mul__", "__rmul__"} -> apply_operator(x, other, "mul", H)
      [] method = "__truediv__" -> apply_operator(x, other, "truediv", H)
      [] method = "__pow__" -> apply_operator(x, other, "pow", H)
      [] method \in {"__rtruediv__", "__rpow__"} ->
            [ret |-> Raise("NotImplementedError"), heap |-> H]

\* __getitem__ and shape of Variable and of PartialLink, what being "getitem"
\* or "shape": a Variable's has the new set {self}, a PartialLink's has the
\* very vars of self; links is a new set.
Derived(x, what, key, H) ==
    IF x.type = "Variable"
    THEN Constructed(Allocated(H, <<{x.ref}, {}>>),
                     PartialLink(Len(H.sets) + 1, Expr(what, 0, key, <<VarExpr(x.ref)>>),
                                 Len(H.sets) + 2))
    ELSE Constructed(Allocated(H, <<{}>>),
                     PartialLink(H.links[x.ref].vars,
                                 Expr(what, 0, key, <<H.links[x.ref].fn>>),
                                 Len(H.sets) + 1))

\* The Variables the expressions are built from, the numbers, and the operands
\* of unsupported type.
ExprVars == {1, 2}
Numbers == {2}
TupleOperand == Operand("tuple", 0, <<VariableOperand(1), VariableOperand(2)>>)
StrOperand == Operand("str", 0, <<>>)

\* The expressions at hand, and what may stand on the other side of an operator.
Expressions ==
    {VariableOperand(v) : v \in ExprVars}
        \cup {PartialLinkOperand(i) : i \in DOMAIN partial_links}
Operands == Expressions \cup {Number(c) : c \in Numbers} \cup {TupleOperand, StrOperand}

\* One operation of the algebra: no variable and no model changes.
Tick == budget > 0 /\ budget' = budget - 1 /\ UNCHANGED <<graph, cache, observation, model>>

\* The objects after the call that returned r.
Built(method, input, r) ==
    /\ set_objects' = r.heap.sets
    /\ partial_links' = r.heap.links
    /\ last' = Op(method, 0, input, r.ret, <<>>)

\* x + other, x - other, x * other, x / other, x ** other.  The exponents
\* written are numbers and operands of unsupported type, which keeps the values
\* small: _apply_operator treats every operator alike.
ApplyDunder(x, method, other) ==
    /\ Tick
    /\ Built(method, <<x, other>>, Dunder(x, method, other, Heap(set_objects, partial_links)))

\* other + x, other - x, other * x, other / x, other ** x with a number other:
\* the reflected method of x is called.
ApplyReflected(x, method, other) ==
    /\ Tick
    /\ Built(method, <<other, x>>, Dunder(x, method, other, Heap(set_objects, partial_links)))

\* x[key].
GetItem(x, key) ==
    /\ Tick
    /\ Built("__getitem__", <<x>>, Derived(x, "getitem", key, Heap(set_objects, partial_links)))

\* x.shape().
Shape(x) ==
    /\ Tick
    /\ Built("shape", <<x>>, Derived(x, "shape", 0, Heap(set_objects, partial_links)))

Next ==
    \/ \E v \in Nodes : Observe(v)
    \/ \E v \in Nodes : \E d \in Nodes \ {v} : ObserveDataset(v, d)
    \/ \E v \in Nodes : Unobserve(v)
    \/ \E v \in Nodes : SetValue(v)
    \/ \E v \in Nodes : Reset(v)
    \/ \E v \in Nodes, input_values \in InputDicts, reevaluate \in BOOLEAN :
            CalculateLogProbability(v, input_values, reevaluate)
    \/ \E v \in Nodes, input_values \in InputDicts : GetSample(v, input_values)
    \/ \E variables \in Members : ConstructModel(variables)
    \/ UpdateObservedSubmodel
    \/ \E qs \in PosteriorRoots : SetPosteriorModel(qs)
    \/ \E rv_values \in InputDicts : CalculateModelLogProbability(rv_values)
    \/ \E input_values \in InputDicts : GetModelSample(input_values)
    \/ \E input_values \in InputDicts : GetPosteriorSample(input_values)
    \/ \E method \in Methods, input_values \in InputDicts :
            EstimateEvidence(method, input_values)
    \/ \E v \in Nodes : Flatten(v)
    \/ FlattenModel
    \/ \E var_name \in Names : GetVariable(var_name)
    \/ \E posterior_sample \in InputDicts : PosteriorSample2JointSample(posterior_sample)

Spec == Init /\ [][Next]_vars

\* The passes over the caches, one operation deeper.
InitDeep == Start(MaxDeepOps, NameSchemes, {<<>>})

NextDeep ==
    \/ \E v \in Nodes : Observe(v)
    \/ \E v \in Nodes : SetValue(v)
    \/ \E v \in Nodes, input_values \in InputDicts, reevaluate \in BOOLEAN :
            CalculateLogProbability(v, input_values, reevaluate)
    \/ \E rv_values \in InputDicts : CalculateModelLogProbability(rv_values)
    \/ \E input_values \in InputDicts : GetModelSample(input_values)

SpecDeep == InitDeep /\ [][NextDeep]_vars

\* The lookups by name and the posterior coupling, under every naming.
InitNames == Start(MaxOps, AllNameSchemes, {<<>>})

NextNames ==
    \/ \E qs \in PosteriorRoots : SetPosteriorModel(qs)
    \/ \E v \in Nodes : Flatten(v)
    \/ FlattenModel
    \/ \E var_name \in Names : GetVariable(var_name)
    \/ \E posterior_sample \in InputDicts : PosteriorSample2JointSample(posterior_sample)

SpecNames == InitNames /\ [][NextNames]_vars

\* The passes of a joint model that may have its posterior model already.
InitPosterior == Start(MaxOps, NameSchemes, {<<>>} \cup PosteriorRoots)

NextPosterior ==
    \/ \E v \in Nodes : Observe(v)
    \/ \E v \in Nodes : SetValue(v)
    \/ \E v \in Nodes, reevaluate \in BOOLEAN : CalculateLogProbability(v, <<>>, reevaluate)
    \/ \E rv_values \in InputDicts : CalculateModelLogProbability(rv_values)
    \/ \E input_values \in InputDicts : GetModelSample(input_values)
    \/ \E input_values \in InputDicts : GetPosteriorSample(input_values)
    \/ \E method \in Methods, input_values \in InputDicts :
            EstimateEvidence(method, input_values)

SpecPosterior == InitPosterior /\ [][NextPosterior]_vars

\* The sampling passes after a variable was observed with a RandomVariable as
\* its data.
NextDataset ==
    \/ \E v \in Nodes : \E d \in Nodes \ {v} : ObserveDataset(v, d)
    \/ \E v \in Nodes : GetSample(v, <<>>)
    \/ \E input_values \in InputDicts : GetModelSample(input_values)

SpecDataset == InitDeep /\ [][NextDataset]_vars

\* Variable.get_sample after the variables were observed and unobserved.
NextDispatch ==
    \/ \E v \in Nodes : Observe(v)
    \/ \E v \in Nodes : \E d \in Nodes \ {v} : ObserveDataset(v, d)
    \/ \E v \in Nodes : Unobserve(v)
    \/ \E v \in Nodes : GetSample(v, <<>>)

SpecDispatch == InitDeep /\ [][NextDispatch]_vars

\* reset() of a variable and of the model, after calls that wrote the caches.
NextReset ==
    \/ \E v \in Nodes : SetValue(v)
    \/ \E v \in Nodes, reevaluate \in BOOLEAN : CalculateLogProbability(v, <<>>, reevaluate)
    \/ \E v \in Nodes : \E d \in Nodes \ {v} : ObserveDataset(v, d)
    \/ \E v \in Nodes : GetSample(v, <<>>)
    \/ \E v \in Nodes : Reset(v)
    \/ ResetModel

SpecReset == InitDeep /\ [][NextReset]_vars

\* The observed-mode pass of estimate_log_model_evidence, over a joint model
\* that has its posterior model.
InitObserved == Start(MaxObservedOps, NameSchemes, {<<1>>})

NextObserved ==
    \/ \E v \in {3, 4} : \E d \in Nodes \ {v} : ObserveDataset(v, d)
    \/ UpdateObservedSubmodel
    \/ \E input_values \in InputDicts : GetModelSample(input_values)
    \/ EstimateEvidence("ELBO", <<>>)

SpecObserved == InitObserved /\ [][NextObserved]_vars

\* The symbolic algebra over the two parentless Variables of one graph.
InitAlgebra ==
    /\ Start(MaxExprOps, NameSchemes, {<<>>})
    /\ parents = << <<>>, <<>>, <<1, 2>>, <<1>> >>
    /\ kind = [v \in Nodes |-> "Random"]
    /\ model.variables = <<3>>

NextAlgebra ==
    \/ \E x \in Expressions, other \in Operands :
            \E method \in {"__add__", "__sub__", "__mul__", "__truediv__"} :
                ApplyDunder(x, method, other)
    \/ \E x \in Expressions : \E other \in Operands \ Expressions :
            ApplyDunder(x, "__pow__", other)
    \/ \E x \in Expressions, c \in Numbers :
            \E method \in {"__radd__", "__rsub__", "__rmul__", "__rtruediv__", "__rpow__"} :
                ApplyReflected(x, method, Number(c))
    \/ \E x \in Expressions : GetItem(x, 0)
    \/ \E x \in Expressions : Shape(x)

SpecAlgebra == InitAlgebra /\ [][NextAlgebra]_vars

\* ------------------------------------------------------------------ properties
\* The variables reachable from the variables S along parents, S included: a
\* fixed point over the edges, computed without _flatten.
RECURSIVE ReachIn(_, _)
ReachIn(S, n) ==
    IF n = 0 THEN S
    ELSE ReachIn(S \cup UNION {Range(parents[x]) : x \in S}, n - 1)
Reachable(S) == ReachIn(S, Cardinality(Nodes))

RandomIn(S) == {v \in S : kind[v] = "Random"}

\* The reachable DAG of the joint model, and of its posterior model.
JointDAG == Reachable(Range(model.variables))
PosteriorDAG == Reachable(Range(model.posterior_model.variables))

\* A node whose cache is as a reset leaves it.
Clean(v) == samples[v] = <<>> /\ ~evaluated[v] /\ current_value[v] = NoneVal

\* C1: when model.calculate_log_probability, model.get_sample or
\* model.get_posterior_sample has returned, every RandomVariable of the reachable
\* DAG of the joint model, and after get_posterior_sample of the posterior model
\* too, has an empty samples stack, _evaluated false and _current_value None.
C1_ResetOnExit ==
    /\ (last.op \in {"calculate_log_probability", "get_sample", "get_posterior_sample"}
            /\ last.ret.exc = "")
        => \A v \in RandomIn(JointDAG) : Clean(v)
    /\ (last.op = "get_posterior_sample" /\ last.ret.exc = "")
        => \A v \in RandomIn(PosteriorDAG) : Clean(v)

\* model.get_posterior_sample has drawn and returned, after a variable-level
\* calculate_log_probability had marked a node u outside the two models' DAGs
\* and with it a parent of u inside them.
C1_Witness ==
    /\ last.op = "get_posterior_sample" /\ last.ret.exc = "" /\ last.drawn # <<>>
    /\ \E u \in Nodes :
            evaluated[u] /\ Range(parents[u]) \cap RandomIn(JointDAG \cup PosteriorDAG) # {}

\* How many terms of the sum are the density of v.
Count(v, terms) == Cardinality({i \in DOMAIN terms : terms[i].node = v})

\* C2: the sum that model.calculate_log_probability returns has the density
\* of every RandomVariable of the model's reachable DAG exactly once, also for
\* a shared ancestor, for a declared variable that is an ancestor of another
\* and for one declared twice.
C2_SingleCounting ==
    (last.op = "calculate_log_probability" /\ last.ret.exc = "")
        => \A v \in RandomIn(JointDAG) : Count(v, last.ret.val) = 1

\* C3: model.calculate_log_probability called twice in a row with the same
\* argument returns the same sum both times.
C3_Idempotent ==
    [][(last.op = "calculate_log_probability" /\ last'.op = "calculate_log_probability"
            /\ last'.input = last.input)
        => last'.ret = last.ret]_vars

\* Observed with a fixed data value.
FixedObserved(v) == observed[v] /\ has_observed_value[v]

\* C4: sampling never draws a variable observed with a fixed value from the
\* variable's own distribution, and the entry returned for it is the observed
\* value: through get_sample on a variable, through model.get_sample, and as a
\* parent of a sampled variable.
C4_ObservedNeverResampled ==
    (last.op \in {"var_get_sample", "get_sample"} /\ last.ret.exc = "")
        => /\ \A i \in DOMAIN last.drawn :
                ~(FixedObserved(last.drawn[i].node)
                    /\ last.drawn[i].dist = last.drawn[i].node)
           /\ \A v \in DOMAIN last.ret.val :
                (FixedObserved(v) /\ v \notin DOMAIN last.input)
                    => last.ret.val[v] = observed_value[v]

\* C5: every RandomVariable is in exactly one of three observation states, a
\* fixed observed value and no dataset, a dataset and no observed value, or
\* neither, and _observed is true in the first two only.
C5_TriState ==
    \A v \in RandomIn(Nodes) :
        LET fixed == /\ has_observed_value[v] /\ observed_value[v] # NoneVal
                     /\ ~has_random_dataset[v] /\ dataset[v] = 0
            random == /\ has_random_dataset[v] /\ dataset[v] # 0
                      /\ ~has_observed_value[v] /\ observed_value[v] = NoneVal
            unobserved == /\ ~has_observed_value[v] /\ observed_value[v] = NoneVal
                          /\ ~has_random_dataset[v] /\ dataset[v] = 0
        IN /\ fixed \/ random \/ unobserved
           /\ observed[v] <=> (fixed \/ random)

\* C6: flatten() of a variable is the set of the variable and its ancestors,
\* and flatten() of a model the union of these sets over its declared
\* variables: nothing else, and nothing twice.
C6_Flatten ==
    /\ last.op = "var_flatten" => last.ret.val = Reachable({last.node})
    /\ last.op = "flatten" => last.ret.val = JointDAG

\* flatten() of a variable with a shared ancestor: _flatten lists more
\* entries than the set has members.
C6_Witness ==
    /\ last.op = "var_flatten"
    /\ Cardinality(last.ret.val) = Cardinality(Nodes)
    /\ Len(VarFlatten(last.node)) > Cardinality(Nodes)

\* The variables of the joint model's DAG that have the name n.
Named(n) == {v \in JointDAG : name[v] = n}

\* C7: model.get_variable(name) returns a variable of the reachable set that
\* has the name when there is one, and raises KeyError, returning nothing,
\* when there is none.
C7_GetVariable ==
    last.op = "get_variable"
        => IF Named(last.input) # {}
           THEN last.ret.exc = "" /\ last.ret.val \in Named(last.input)
           ELSE last.ret = Raise("KeyError")

\* A lookup that failed for a name that a variable outside the model's DAG
\* has, and a lookup that chose among two variables of the name.
C7_Witness ==
    /\ last.op = "get_variable"
    /\ \/ last.ret.exc = "KeyError" /\ \E v \in Nodes : name[v] = last.input
       \/ last.ret.exc = "" /\ Cardinality(Named(last.input)) > 1

\* A mapping as its set of pairs.
Pairs(mapping) == {<<q, mapping[q]>> : q \in DOMAIN mapping}

\* The last variable of a _flatten() list that has the name n.
LastNamed(flat_list, n) ==
    flat_list[CHOOSE i \in DOMAIN flat_list :
                /\ name[flat_list[i]] = n
                /\ \A j \in DOMAIN flat_list : name[flat_list[j]] = n => j <= i]

NamesOf(flat_list) == {name[flat_list[i]] : i \in DOMAIN flat_list}

\* C8 as stated: model_mapping has the pair (q -> p) exactly when q is in the
\* posterior model's DAG, p in the joint model's DAG and their names are equal,
\* and set_posterior_model raises nothing.
C8_EverySameNamedPair ==
    /\ last.op = "set_posterior_model" => last.ret.exc = ""
    /\ model.posterior_model.attached
        => Pairs(model.posterior_model.model_mapping)
            = {qp \in PosteriorDAG \X JointDAG : name[qp[1]] = name[qp[2]]}

\* C8: set_posterior_model raises nothing, and model_mapping has one pair for
\* every name that both models have: from the last variable of that name in the
\* posterior model's _flatten() list to the last one in the joint model's.
\* Where no two variables of a model share a name these are all the same-named
\* pairs.
C8_ModelMapping ==
    /\ last.op = "set_posterior_model" => last.ret.exc = ""
    /\ model.posterior_model.attached
        => LET q_list == ModelFlatten(model.posterior_model.variables)
               p_list == ModelFlatten(model.variables)
           IN Pairs(model.posterior_model.model_mapping)
                = {<<LastNamed(q_list, n), LastNamed(p_list, n)>> :
                        n \in NamesOf(q_list) \cap NamesOf(p_list)}

\* A posterior model attached to a joint model where each has a variable
\* whose name the other lacks, and a name that both have.
C8_Witness ==
    /\ last.op = "set_posterior_model" /\ model.posterior_model.attached
    /\ model.posterior_model.model_mapping # <<>>
    /\ \E q \in PosteriorDAG : \A p \in JointDAG : name[p] # name[q]
    /\ \E p \in JointDAG : \A q \in PosteriorDAG : name[p] # name[q]

\* C9: posterior_sample2joint_sample returns the assignment whose keys are
\* the images under model_mapping of the input's keys that are mapped, each
\* with the value of its posterior key; the other keys of the input are
\* dropped and nothing is raised.
C9_Posterior2Joint ==
    last.op = "posterior_sample2joint_sample"
        => LET mapping == model.posterior_model.model_mapping
               mapped == DOMAIN last.input \cap DOMAIN mapping
           IN /\ last.ret.exc = ""
              /\ DOMAIN last.ret.val = {mapping[q] : q \in mapped}
              /\ \A q \in mapped : last.ret.val[mapping[q]] = last.input[q]

\* A translation that renamed a key and dropped another.
C9_Witness ==
    /\ last.op = "posterior_sample2joint_sample"
    /\ \E q \in DOMAIN last.input : q \notin DOMAIN model.posterior_model.model_mapping
    /\ \E q \in DOMAIN last.input \cap DOMAIN model.posterior_model.model_mapping :
            model.posterior_model.model_mapping[q] # q

\* C10: get_posterior_sample and estimate_log_model_evidence on a model
\* without a posterior model raise AttributeError with no sampler called and
\* every cache as it was; with a posterior model attached they do not raise
\* that error.
C10_PosteriorPrecondition ==
    [][last'.op \in {"get_posterior_sample", "estimate_log_model_evidence"}
        => IF ~model.posterior_model.attached
           THEN /\ last'.ret = Raise("AttributeError")
                /\ last'.drawn = <<>>
                /\ UNCHANGED cache
           ELSE last'.ret.exc # "AttributeError"]_vars

\* The error was raised while a node held a memo flag from an earlier call.
C10_Witness ==
    /\ last.op \in {"get_posterior_sample", "estimate_log_model_evidence"}
    /\ last.ret = Raise("AttributeError")
    /\ \E v \in Nodes : evaluated[v]

\* C11 as stated: estimate_log_model_evidence called with a method other than
\* "ELBO" fails as unimplemented.
C11_OtherMethodUnimplemented ==
    [][\A method \in Methods \ {"ELBO"}, input_values \in InputDicts :
          (last'.op = "estimate_log_model_evidence" /\ EstimateEvidence(method, input_values))
              => last'.ret.exc = "NotImplementedError"]_vars

\* C11: estimate_log_model_evidence called with a method other than "ELBO" on
\* a model that has its posterior model fails as unimplemented; on a model
\* without one it fails as check_posterior_model does, whatever the method.
\* Either way no cache and no model changes.
C11_UnimplementedMethod ==
    [][\A method \in Methods \ {"ELBO"}, input_values \in InputDicts :
          (last'.op = "estimate_log_model_evidence" /\ EstimateEvidence(method, input_values))
              => /\ last'.ret.exc = IF model.posterior_model.attached
                                    THEN "NotImplementedError" ELSE "AttributeError"
                 /\ UNCHANGED <<cache, model>>]_vars

\* A method other than "ELBO" was asked of a model with a posterior model.
C11_Witness ==
    last.op = "estimate_log_model_evidence" /\ last.ret.exc = "NotImplementedError"

\* C12: ProbabilisticModel(variables) with a member that is neither a
\* DeterministicVariable nor a RandomVariable raises the invalid-type error and
\* produces no model; with Variables only it returns the model of those
\* declared variables.
C12_ConstructValidates ==
    [][\A variables \in Members :
          (last'.op = "construct" /\ ConstructModel(variables))
              => IF \E i \in DOMAIN variables : variables[i] \notin Nodes
                 THEN last'.ret.exc = "ValueError" /\ model' = model
                 ELSE /\ last'.ret = Return(variables)
                      /\ model'.constructed /\ model'.variables = variables]_vars

\* A constructor call was rejected.
C12_Witness == last.op = "construct" /\ last.ret.exc = "ValueError"

\* The observed submodel of the joint model: its declared variables, as a set.
SubmodelRoots == Range(model.observed_submodel.variables)

\* C17: DeterministicVariable.calculate_log_probability returns the empty sum,
\* 0, for every bound assignment and either reevaluate, and changes no field of
\* any node; no sum, of a variable or of a model, has a term of a
\* deterministic node.
C17_DeterministicLogProbZero ==
    [][/\ (last'.op \in {"var_log_probability", "var_log_probability_memo"}
                /\ kind[last'.node] = "Deterministic")
            => last'.ret = Return(<<>>) /\ UNCHANGED <<graph, cache, observation, model>>
       /\ (last'.op \in {"var_log_probability", "var_log_probability_memo",
                          "calculate_log_probability"} /\ last'.ret.exc = "")
            => \A i \in DOMAIN last'.ret.val : kind[last'.ret.val[i].node] = "Random"]_vars

\* A deterministic variable was asked for the log-probability of an assignment
\* that binds it.
C17_Witness ==
    /\ last.op \in {"var_log_probability", "var_log_probability_memo"}
    /\ kind[last.node] = "Deterministic" /\ last.node \in DOMAIN last.input

\* C13 as stated: after update_observed_submodel, and after the construction of
\* a model whose declared variables are not all observed, the declared
\* variables of observed_submodel are exactly the observed variables of the
\* reachable DAG and its own reachable set has no unobserved variable; a model
\* whose declared variables are all observed at construction is its own
\* observed submodel.
C13_ObservedSubmodel ==
    (last.op \in {"construct", "update_observed_submodel"} /\ last.ret.exc = "")
        => IF model.observed_submodel.is_self
           THEN last.op = "construct"
                    /\ \A i \in DOMAIN model.variables : is_observed(model.variables[i])
           ELSE /\ SubmodelRoots = {v \in JointDAG : is_observed(v)}
                /\ \A u \in Reachable(SubmodelRoots) : is_observed(u)

\* C13: after update_observed_submodel, and after the construction of a model
\* whose declared variables are not all observed, the declared variables of
\* observed_submodel are exactly the observed variables of the reachable DAG;
\* a model is its own observed submodel exactly after a construction that found
\* all its declared variables observed.
C13_ObservedRoots ==
    (last.op \in {"construct", "update_observed_submodel"} /\ last.ret.exc = "")
        => IF model.observed_submodel.is_self
           THEN last.op = "construct"
                    /\ \A i \in DOMAIN model.variables : is_observed(model.variables[i])
           ELSE /\ SubmodelRoots = {v \in JointDAG : is_observed(v)}
                /\ last.op = "construct"
                        => \E i \in DOMAIN model.variables : ~is_observed(model.variables[i])

\* update_observed_submodel found an observed variable that is not declared
\* and has an unobserved ancestor.
C13_Witness ==
    /\ last.op = "update_observed_submodel"
    /\ \E v \in SubmodelRoots \ Range(model.variables) :
            \E u \in Reachable({v}) : ~is_observed(u)

\* The nodes a non-observed sampling pass from the variables S descends to when
\* the nodes of cut return without sampling their parents.
RECURSIVE ReachCut(_, _, _)
ReachCut(S, cut, n) ==
    IF n = 0 THEN S
    ELSE ReachCut(S \cup UNION {Range(parents[x]) : x \in S \ cut}, cut, n - 1)

\* The RandomVariables an assignment binds.
BoundRandom(input_values) == {v \in DOMAIN input_values : kind[v] = "Random"}

\* C19: in model.get_sample, a RandomVariable bound by input_values is not
\* drawn, no node is drawn that the pass reaches only through bound variables,
\* every draw of a child of a bound variable is made under the bound value, and
\* the returned assignment carries the bound value of every bound key.
C19_BoundShortCircuit ==
    (last.op = "get_sample" /\ last.ret.exc = "")
        => /\ \A i \in DOMAIN last.drawn :
                /\ last.drawn[i].node \notin BoundRandom(last.input)
                /\ last.drawn[i].node \in ReachCut(Range(model.variables),
                                                   BoundRandom(last.input), Cardinality(Nodes))
           /\ \A v \in DOMAIN last.input :
                last.ret.val[v] = reformat_sampler_input(last.input)[v]
           /\ \A c \in DOMAIN last.ret.val :
                last.ret.val[c].tag = "draw"
                    => \A p \in DOMAIN last.ret.val[c].args \cap BoundRandom(last.input) :
                            last.ret.val[c].args[p] = reformat_sampler_input(last.input)[p]

\* C20: model.get_sample with no bound values returns an assignment whose keys
\* are exactly the variables of the model's reachable DAG.
C20_SampleCoverage ==
    (last.op = "get_sample" /\ last.ret.exc = "" /\ DOMAIN last.input = {})
        => DOMAIN last.ret.val = JointDAG

\* In the sampling pass ps no distribution drew twice, and every draw was made
\* under the values the pass returns for the parents.
SingleDraws(ps) ==
    /\ \A d \in Nodes : Cardinality({i \in DOMAIN ps.drawn : ps.drawn[i].dist = d}) <= 1
    /\ \A c \in DOMAIN join_dicts_list(ps.outs) :
            join_dicts_list(ps.outs)[c].tag = "draw"
                => \A p \in DOMAIN join_dicts_list(ps.outs)[c].args :
                        kind[p] = "Random"
                            => join_dicts_list(ps.outs)[c].args[p] = join_dicts_list(ps.outs)[p]

\* C18: in a model-level sampling pass that starts with every samples stack
\* empty, the pass of model.get_sample or the observed-mode pass of
\* estimate_log_model_evidence, the sampler of every RandomVariable is called at
\* most once and every child draws under the value the pass returns for its
\* parent.
C18_SingleDraw ==
    [][(\A v \in Nodes : samples[v] = <<>>)
          => /\ (last'.op = "get_sample" /\ last'.ret.exc = "")
                    => SingleDraws(ParentsSample(model.variables, Now, FALSE, FALSE,
                                                 reformat_sampler_input(last'.input), budget))
             /\ (last'.op = "estimate_log_model_evidence" /\ last'.ret.exc = "")
                    => SingleDraws(ParentsSample(ObservedVariables(model), Now, FALSE, TRUE,
                                                 <<>>, budget))]_vars

\* ------------------------------------------------------------------ properties of the algebra
\* The assignments an expression is evaluated under.
Assignments == [ExprVars -> {0, 2, 3}]

\* The operator a method stands for.
OperatorOf(method) ==
    CASE method \in {"__add__", "__radd__"} -> "add"
      [] method \in {"__sub__", "__rsub__"} -> "sub"
      [] method \in {"__mul__", "__rmul__"} -> "mul"
      [] method \in {"__truediv__", "__rtruediv__"} -> "truediv"
      [] method \in {"__pow__", "__rpow__"} -> "pow"

\* The Variables an expression reads: those its fn looks up.
RECURSIVE FreeVars(_)
FreeVars(e) ==
    IF e.op = "var" THEN {e.var} ELSE UNION {FreeVars(e.args[i]) : i \in DOMAIN e.args}

\* The value of the operand o under an assignment, and the Variables it reads.
OperandValue(o, values) ==
    CASE o.type = "Variable" -> Num(values[o.ref], 1, FALSE)
      [] o.type = "number" -> Num(o.ref, 1, FALSE)
      [] o.type = "PartialLink" -> Eval(partial_links[o.ref].fn, values)
OperandFree(o) ==
    CASE o.type = "Variable" -> {o.ref}
      [] o.type = "number" -> {}
      [] o.type = "PartialLink" -> FreeVars(partial_links[o.ref].fn)

\* op applied to the values x and y, x evaluated first.
Applied(op, x, y) ==
    IF x.exc # "" THEN x ELSE IF y.exc # "" THEN y ELSE Operator(op, x, y)

Supported == {"Variable", "PartialLink", "number"}

\* C14: an expression written l op r, with +, -, *, /, ** between Variables,
\* PartialLinks and numbers or as number + X, number - X, number * X, is
\* built; under every assignment its fn evaluates to op applied to the value
\* of l and the value of r; and its vars is the union of the Variables l reads
\* and the Variables r reads.
C14_SymbolicArithmetic ==
    (/\ last.op \in {"__add__", "__sub__", "__mul__", "__truediv__", "__pow__",
                     "__radd__", "__rsub__", "__rmul__"}
     /\ last.input[1].type \in Supported /\ last.input[2].type \in Supported)
        => /\ last.ret.exc = ""
           /\ \A values \in Assignments :
                Eval(partial_links[last.ret.val].fn, values)
                    = Applied(OperatorOf(last.op), OperandValue(last.input[1], values),
                              OperandValue(last.input[2], values))
           /\ set_objects[partial_links[last.ret.val].vars]
                = OperandFree(last.input[1]) \cup OperandFree(last.input[2])

\* The members of the vars and of the links of the operand o.
OperandVars(o) ==
    CASE o.type = "Variable" -> {o.ref}
      [] o.type = "number" -> {}
      [] o.type = "PartialLink" -> set_objects[partial_links[o.ref].vars]
OperandLinks(o) ==
    IF o.type = "PartialLink" THEN set_objects[partial_links[o.ref].links] ELSE {}

\* C15: building an expression leaves every PartialLink there was with the
\* vars, the links and the fn it had, and the new expression's vars and links
\* are the unions of those the operands had.
C15_Immutable ==
    [][(last'.op \in {"__add__", "__sub__", "__mul__", "__truediv__", "__pow__", "__radd__",
                      "__rsub__", "__rmul__", "__rtruediv__", "__rpow__", "__getitem__",
                      "shape"})
          => /\ \A i \in DOMAIN partial_links :
                    /\ partial_links'[i] = partial_links[i]
                    /\ set_objects'[partial_links[i].vars] = set_objects[partial_links[i].vars]
                    /\ set_objects'[partial_links[i].links] = set_objects[partial_links[i].links]
             /\ (last'.ret.exc = "" /\ \A i \in DOMAIN last'.input : last'.input[i].type \in Supported)
                    => /\ set_objects'[partial_links'[last'.ret.val].vars]
                            = UNION {OperandVars(last'.input[i]) : i \in DOMAIN last'.input}
                       /\ set_objects'[partial_links'[last'.ret.val].links]
                            = UNION {OperandLinks(last'.input[i]) : i \in DOMAIN last'.input}]_vars

\* C16: x op other with a Variable or a PartialLink x and an other that is no
\* Variable, no PartialLink and no number raises TypeError when it is written,
\* and so builds nothing.
C16_UnsupportedOperandEager ==
    (/\ last.op \in {"__add__", "__sub__", "__mul__", "__truediv__", "__pow__"}
     /\ last.input[2].type \notin Supported)
        => last.ret = Raise("TypeError")

\* ------------------------------------------------------------------ properties of reset
\* The variables reset was called on: the node, or the declared variables of
\* the model.
ResetRoots(op) == IF op.op = "reset" THEN {op.node} ELSE Range(model.variables)

\* C21: right after reset() of a variable or of the model, every RandomVariable
\* reachable from it has an empty samples stack, _evaluated false and
\* _current_value None, while the set that flatten() returns, every parents
\* tuple, every node's observation state and the value of every
\* DeterministicVariable are as they were before the call.
C21_ResetFrame ==
    [][(last'.op \in {"reset", "reset_model"})
          => /\ \A v \in RandomIn(Reachable(ResetRoots(last'))) :
                    samples'[v] = <<>> /\ ~evaluated'[v] /\ current_value'[v] = NoneVal
             /\ \A v \in Nodes :
                    /\ kind[v] = "Deterministic" => current_value'[v] = current_value[v]
                    /\ parents'[v] = parents[v]
                    /\ observed'[v] = observed[v] /\ observed_value'[v] = observed_value[v]
                    /\ dataset'[v] = dataset[v]
                    /\ has_observed_value'[v] = has_observed_value[v]
                    /\ has_random_dataset'[v] = has_random_dataset[v]
             /\ UNCHANGED <<graph, model>>]_vars

\* reset() was called on a random variable that has a deterministic parent
\* whose value had been set, and a variable that the reset does not reach still
\* holds its memo flag.
C21_Witness ==
    /\ last.op = "reset" /\ kind[last.node] = "Random"
    /\ \E d \in Range(parents[last.node]) :
            kind[d] = "Deterministic" /\ current_value[d] = coerce_to_dtype(SetVal(d), FALSE)
    /\ \E u \in Nodes \ Reachable({last.node}) : evaluated[u]

\* ------------------------------------------------------------------ properties of the observed mode
\* value is what the observed-mode pass numbered serial has for node v: the
\* fixed observed value of v; or else a draw made in this pass by the
\* distribution of v's dataset variable, or of v when it has none, under values
\* of that variable's parents that are such values themselves.
RECURSIVE ObservedModeValue(_, _, _)
ObservedModeValue(v, value, serial) ==
    IF kind[v] = "Deterministic" THEN TRUE
    ELSE IF has_observed_value[v] THEN value = observed_value[v]
    ELSE /\ value.tag = "draw"
         /\ value.of = (IF has_random_dataset[v] THEN dataset[v] ELSE v)
         /\ value.k[1] = serial
         /\ DOMAIN value.args = Range(parents[value.of])
         /\ \A p \in DOMAIN value.args : ObservedModeValue(p, value.args[p], serial)

\* C22: get_sample of an observed variable, an observed-mode pass, returns the
\* fixed observed value of a variable that has one, a draw through the dataset
\* variable's parents and distribution for one with a random dataset, and a
\* draw of its own distribution for one with neither, and so for every variable
\* the pass descends to; and after unobserve() the variable is not observed and
\* has no fixed value and no dataset.
C22_ObservedDispatch ==
    /\ (last.op = "var_get_sample" /\ is_observed(last.node))
            => ObservedModeValue(last.node, last.ret.val[last.node], budget + 1)
    /\ last.op = "unobserve"
            => /\ ~is_observed(last.node)
               /\ ~has_observed_value[last.node] /\ observed_value[last.node] = NoneVal
               /\ ~has_random_dataset[last.node] /\ dataset[last.node] = 0

\* C23: when a model-level sampling or log-probability pass has returned,
\* every node that pushed a draw on its samples stack during the pass has an
\* empty stack again, the ancestors of a dataset variable that were sampled for
\* an observed variable among them, and no node holds a memo flag that it did
\* not hold before the pass.
C23_WritesInFootprint ==
    [][(last'.op \in {"get_sample", "calculate_log_probability", "get_posterior_sample",
                      "estimate_log_model_evidence"} /\ last'.ret.exc = "")
          => /\ \A i \in DOMAIN last'.drawn : samples'[last'.drawn[i].node] = <<>>
             /\ \A v \in Nodes : evaluated'[v] => evaluated[v]]_vars

\* C24: in every density term of calculate_log_probability on an assignment,
\* the value the link was fed for a deterministic parent that the assignment
\* binds is the value DeterministicVariable._get_sample hands to the same link
\* under that assignment, but for the tiling along the samples axis.
C24_SameDeterministicValue ==
    (last.op \in {"calculate_log_probability", "var_log_probability",
                  "var_log_probability_memo"} /\ last.ret.exc = "")
        => \A i \in DOMAIN last.ret.val :
                \A p \in DOMAIN last.ret.val[i].params :
                    (kind[p] = "Deterministic" /\ p \in DOMAIN last.input)
                        => tile_parameter(last.ret.val[i].params[p])
                                = VarSample(p, Now, FALSE, FALSE, last.input, 0).out[p]

\* C25: a model construction ends after at most one nested construction: the
\* chain of models that ProbabilisticModel(variables) constructs has at most two
\* members and its last member is its own observed submodel, the model stored
\* in observed_submodel is the second member (the model itself when there is
\* none), and the model that update_observed_submodel stores has observed
\* declared variables only and constructs no further model, the empty model
\* included.
C25_ConstructionFixedPoint ==
    (last.op \in {"construct", "update_observed_submodel"} /\ last.ret.exc = "")
        => LET built == ConstructedModels(model.variables, MaxNesting)
               nested == ConstructedModels(model.observed_submodel.variables, MaxNesting)
           IN  /\ built.fixed /\ Len(built.chain) <= 2
               /\ last.op = "construct"
                    => /\ model.observed_submodel.is_self <=> Len(built.chain) = 1
                       /\ ~model.observed_submodel.is_self
                            => model.observed_submodel.variables = built.chain[2]
               /\ ~model.observed_submodel.is_self
                    => /\ \A v \in SubmodelRoots : is_observed(v)
                       /\ nested.fixed /\ nested.chain = <<model.observed_submodel.variables>>

\* update_observed_submodel built the model of an observed variable that has
\* an unobserved parent, for a model that declares an unobserved variable.
C25_Witness ==
    /\ last.op = "update_observed_submodel"
    /\ ~model.observed_submodel.is_self
    /\ \E i \in DOMAIN model.variables : ~is_observed(model.variables[i])
    /\ \E v \in SubmodelRoots : \E i \in DOMAIN parents[v] : ~is_observed(parents[v][i])
====
